---- MODULE Spec2Model ----
(***************************************************************************)
(* Model of the Baseball Almanac scraper (diamond_data_scraper/scraper.py). *)
(*                                                                         *)
(* Python values are represented as follows.  None and the other falsy     *)
(* values the code only tests for truthiness are one value: 0 for an       *)
(* absent integer (colspan, rowspan, year), <<>> for an absent list and    *)
(* "" for an absent string.  A dict that is iterated (the rowspan carry    *)
(* map) is a sequence of entries in insertion order; a dict that is only   *)
(* looked up by key (a record, a page's table map) is a function.          *)
(***************************************************************************)
EXTENDS Integers, Sequences, FiniteSets, TLC

\* ---------------------------------------------------------------- bounds
MaxCols == 3      \* longest row (banner or data cells) of a scanned table
MaxSpan == 2      \* largest rowspan a cell declares
MaxRows == 4      \* rows scanned on one page

\* ------------------------------------------------------- generic helpers
Min(a, b) == IF a < b THEN a ELSE b

Range(s) == {s[k] : k \in 1..Len(s)}

\* F applied to the value of v, which is computed once.
With(v, F(_)) == CHOOSE r \in {F(x) : x \in {v}} : TRUE

\* list.insert(i, v) with a 0-based i >= 0: past the end it appends.
ListInsert(s, i, v) ==
    IF i >= Len(s) THEN Append(s, v)
    ELSE SubSeq(s, 1, i) \o <<v>> \o SubSeq(s, i + 1, Len(s))

\* dict(zip(names, vals)): zip stops at the shorter list, a repeated name keeps
\* the value written last.
DictZip(names, vals) ==
    LET n == Min(Len(names), Len(vals))
        keys == {names[k] : k \in 1..n}
        last(key) == CHOOSE k \in 1..n :
                        /\ names[k] = key
                        /\ \A j \in 1..n : names[j] = key => j <= k
    IN [key \in keys |-> vals[last(key)]]

\* d[k] = v on a function-dict.
DictPut(d, k, v) == [x \in DOMAIN d \cup {k} |-> IF x = k THEN v ELSE d[x]]

\* d.pop(k) on a function-dict that has k.
DictDel(d, k) == [x \in DOMAIN d \ {k} |-> d[x]]

EmptyDict == [x \in {} |-> ""]

\* ------------------------------------------------------- the carry map
\* duplicate_rows[idx] = [text, n] on the insertion-ordered dict: an existing
\* key keeps its place, a new key goes last.
CarrySet(d, idx, text, n) ==
    LET e == [idx |-> idx, text |-> text, n |-> n]
    IN IF \E j \in 1..Len(d) : d[j].idx = idx
       THEN [j \in 1..Len(d) |-> IF d[j].idx = idx THEN e ELSE d[j]]
       ELSE Append(d, e)

CarryKeys(d) == {d[j].idx : j \in 1..Len(d)}

CarryAt(d, idx) == d[CHOOSE j \in 1..Len(d) : d[j].idx = idx]

\* ------------------------------------------------------------ cell texts
\* str.strip() on the cell texts of the model: the padded text loses its pad.
Strip(t) == IF t = " c1 " THEN "c1" ELSE t

\* Column name of a banner cell: a region label becomes "Region", otherwise
\* the text without " [Click for roster]", stripped.
Regions == {"East", "Central", "West"}

ColName(t) ==
    IF t \in Regions THEN "Region"
    ELSE IF t = "Team [Click for roster]" THEN "Team"
    ELSE Strip(t)

\* ------------------------------------------------------- header patterns
\* re.search(r"(Player|Pitcher)", h) on the header texts of the model.
PlayerPattern(h) == h \in {"Player Review", "Pitcher Review"}

\* re.search(r"Team(?= Review)|Team Standings", h).group().split(" "),
\* <<>> when there is no match.
TeamPattern(h) ==
    IF h = "Team Review" THEN <<"Team">>
    ELSE IF h = "Team Standings" THEN <<"Team", "Standings">>
    ELSE <<>>

\* STAT_TABLE_KEY_RE.search(h).group(1), "" when there is no match.
StatTableKey(h) ==
    IF h \in {"Hitting Statistics", "Pitching Statistics"} THEN h ELSE ""

\* ----------------------------------------------------------- row parsing
\* A row is [headers, colspan, banners, cells]: the texts of its h2/p
\* elements, the colspan of its first td (0: none), its banner cells and its
\* data cells, each cell [text, rowspan] (rowspan 0: no attribute).

find_table_name_and_columns(row) ==
    IF row.headers = <<>> THEN [table_name |-> <<>>, num_cols |-> 0]
    ELSE
      LET headers == row.headers
          header0 == headers[1]
          header1 == IF Len(headers) > 1 THEN headers[2] ELSE ""
          player == IF PlayerPattern(header0) THEN <<"Player">> ELSE <<>>
          m_team == IF TeamPattern(header0) # <<>> THEN TeamPattern(header0)
                    ELSE TeamPattern(header1)
          m_key == IF Len(headers) > 1 /\ StatTableKey(headers[2]) # ""
                   THEN <<StatTableKey(headers[2])>> ELSE <<>>
          table_name_parts == player \o m_team \o m_key
      IN IF table_name_parts = <<>> THEN [table_name |-> <<>>, num_cols |-> 0]
         ELSE [table_name |-> table_name_parts, num_cols |-> row.colspan]

RECURSIVE BannerCarry(_, _)
BannerCarry(elements, k) ==
    IF k = 0 THEN <<>>
    ELSE LET el == elements[k]
         IN With(BannerCarry(elements, k - 1),
                 LAMBDA d : IF el.rowspan # 0
                            THEN CarrySet(d, k - 1, el.text, el.rowspan) ELSE d)

find_col_names(row) ==
    IF row.banners = <<>> THEN [col_names |-> <<>>, dup |-> <<>>]
    ELSE [col_names |-> [k \in 1..Len(row.banners) |-> ColName(row.banners[k].text)],
          dup |-> BannerCarry(row.banners, Len(row.banners))]

\* Lines 382-386: the rowspans the row's own cells declare, in cell order.
RECURSIVE CellCarry(_, _, _)
CellCarry(dup, cells, k) ==
    IF k = 0 THEN dup
    ELSE LET cell == cells[k]
         IN With(CellCarry(dup, cells, k - 1),
                 LAMBDA d : IF cell.rowspan # 0
                            THEN CarrySet(d, k - 1, cell.text, cell.rowspan) ELSE d)

\* Lines 389-390: insert every pending value, in the carry map's own order.
RECURSIVE InsertCarried(_, _, _)
InsertCarried(data, dup, k) ==
    IF k = 0 THEN data
    ELSE With(InsertCarried(data, dup, k - 1),
              LAMBDA s : ListInsert(s, dup[k].idx, dup[k].text))

\* Lines 388-391: which rows get the reinsertion.
ReinsertGuard(num_cols, data) == num_cols # 0 /\ Len(data) # num_cols

\* Line 391: the count an entry is left with after a reinsertion.
Decrement(n) == n - 1

\* Line 393: the entries that stay in the carry map.
Pending(e) == e.n > 0

find_cell_data(row, num_cols, duplicate_rows) ==
    IF row.cells = <<>>
    THEN [data |-> <<>>, dup |-> duplicate_rows, reinserted |-> {}]
    ELSE
      LET cells == row.cells
          dup1 == CellCarry(duplicate_rows, cells, Len(cells))
          data0 == [k \in 1..Len(cells) |-> Strip(cells[k].text)]
          fill == ReinsertGuard(num_cols, data0)
          data1 == IF fill THEN InsertCarried(data0, dup1, Len(dup1)) ELSE data0
          dup2 == IF fill
                  THEN [j \in 1..Len(dup1) |-> [dup1[j] EXCEPT !.n = Decrement(@)]]
                  ELSE dup1
      IN [data |-> data1,
          dup |-> SelectSeq(dup2, Pending),
          reinserted |-> IF fill THEN CarryKeys(dup1) ELSE {}]

\* Line 263: the rows that join the table's row list.
KeepRow(row_data, col_names) ==
    row_data # <<>> /\ col_names # <<>> /\ Len(row_data) = Len(col_names)

\* Line 260, "temp_dup_from_cells is not None": find_cell_data returns a carry
\* map on every path (lines 376, 379, 394), for a row without data cells the
\* map it was given.
CellCarryReturned(row) == TRUE

\* One iteration of the row loop of get_data (lines 248-264) on the scan state
\* st = [table_name, col_num, col_names, duplicate_rows, data_list].
ScanRow(st, row) ==
    LET tn == find_table_name_and_columns(row)
        cn == find_col_names(row)
        cd == find_cell_data(row, st.col_num, st.duplicate_rows)
        dup_h == IF cn.dup # <<>> THEN cn.dup ELSE st.duplicate_rows
        dup_c == IF CellCarryReturned(row) THEN cd.dup ELSE dup_h
        names == IF cn.col_names # <<>> THEN cn.col_names ELSE st.col_names
    IN [table_name |-> IF tn.table_name # <<>> THEN tn.table_name ELSE st.table_name,
        col_num |-> IF tn.num_cols # 0 THEN tn.num_cols ELSE st.col_num,
        col_names |-> names,
        duplicate_rows |-> dup_c,
        data_list |-> IF KeepRow(cd.data, names)
                      THEN Append(st.data_list, cd.data) ELSE st.data_list]

\* Lines 240-244: the scan state at the start of a table.
NewTable ==
    [table_name |-> <<>>, col_num |-> 0, col_names |-> <<>>,
     duplicate_rows |-> <<>>, data_list |-> <<>>]

\* Line 267: the records of a table.
ListOfDicts(col_names, data_list) ==
    [j \in 1..Len(data_list) |-> DictZip(col_names, data_list[j])]

\* Line 266: the tables that are filed.
FileGuard(st) == st.table_name # <<>> /\ st.col_names # <<>> /\ st.data_list # <<>>

\* Lines 266-271 on the page's two maps d = [player, team].
FileTable(d, st) ==
    IF ~FileGuard(st) THEN d
    ELSE LET recs == ListOfDicts(st.col_names, st.data_list)
             kind == st.table_name[Len(st.table_name)]
         IN IF st.table_name[1] = "Player"
            THEN [d EXCEPT !.player = DictPut(@, kind, recs)]
            ELSE IF st.table_name[1] = "Team"
            THEN [d EXCEPT !.team = DictPut(@, kind, recs)]
            ELSE d

EmptyMaps == [player |-> EmptyDict, team |-> EmptyDict]

RECURSIVE ScanRows(_, _, _)
ScanRows(st, rows, k) ==
    IF k = 0 THEN st
    ELSE With(ScanRows(st, rows, k - 1), LAMBDA prev : ScanRow(prev, rows[k]))

\* get_data with the carry map of line 241 created once, before the table
\* loop: a table starts with the entries the table before it left pending.
RECURSIVE GetDataCarried(_, _)
GetDataCarried(tables, k) ==
    IF k = 0 THEN [d |-> EmptyMaps, st |-> NewTable]
    ELSE With(GetDataCarried(tables, k - 1),
              LAMBDA prev :
                With(ScanRows([NewTable EXCEPT
                                  !.duplicate_rows = prev.st.duplicate_rows],
                              tables[k], Len(tables[k])),
                     LAMBDA st : [d |-> FileTable(prev.d, st), st |-> st]))

GetDataLeaky(tables, k) == GetDataCarried(tables, k).d

\* get_data (lines 233-280) on a page given as the list of its boxed tables,
\* each the list of its rows.
RECURSIVE GetData(_, _)
GetData(tables, k) ==
    IF k = 0 THEN EmptyMaps
    ELSE With(GetData(tables, k - 1),
              LAMBDA d :
                With(ScanRows(NewTable, tables[k], Len(tables[k])),
                     LAMBDA st : FileTable(d, st)))

\* ------------------------------------------------------ link collector
\* Line 154 (and line 219): the first year of the American League.
FirstALYear == 1901

\* An anchor's href is [year, code]: the four digits and the letter of
\* "yr<YYYY><c>.shtml"; an anchor without href reads as "" (line 143), here
\* [year |-> 0, code |-> ""].
\* YEARLY_LINK_RE.search(href): the letter is a or n.
YearlyLinkMatch(href) == href.code \in {"a", "n"}

\* Lines 135-139.
Want(league) ==
    IF league = "AL" THEN "a" ELSE IF league = "NL" THEN "n" ELSE ""

\* Lines 145-155 without the check of line 154.
KeepLinkAnyYear(href, want) ==
    /\ YearlyLinkMatch(href)
    /\ ~(want # "" /\ href.code # want)

\* Lines 145-155: the hrefs the loop appends.
KeepLink(href, want) ==
    /\ YearlyLinkMatch(href)
    /\ ~(want # "" /\ href.code # want)
    /\ ~(href.code = "a" /\ href.year < FirstALYear)

\* Lines 141-157.
RECURSIVE CollectLinks(_, _, _)
CollectLinks(anchors_, want, k) ==
    IF k = 0 THEN <<>>
    ELSE LET links_ == CollectLinks(anchors_, want, k - 1)
         IN IF KeepLink(anchors_[k], want) THEN Append(links_, anchors_[k])
            ELSE links_

get_year_links(anchors_, league_) ==
    CollectLinks(anchors_, Want(league_), Len(anchors_))

\* Line 88: links[:limit_years] for a limit > 0.
Truncate(links_, n) == SubSeq(links_, 1, Min(n, Len(links_)))

\* Lines 83-88: the limit ends the run before any page is loaded.
NothingToScrape(limit) == limit.given /\ limit.n <= 0

\* ---------------------------------------------------- page header parser
\* The intro heading of a page is [present, year, word]: whether div.intro > h1
\* exists, the four digits in front of the league word (0: none) and the word
\* in front of "LEAGUE".
\* YEAR_LEAGUE_HEADER_RE.search(header): a year and AMERICAN or NATIONAL, in
\* any case.
LeagueWords == {"AMERICAN", "American", "NATIONAL", "National"}

HeaderMatch(h) == h.year # 0 /\ h.word \in LeagueWords

\* str.title() on the league words.
Title(w) ==
    IF w \in {"AMERICAN", "American"} THEN "American"
    ELSE IF w \in {"NATIONAL", "National"} THEN "National"
    ELSE w

NoContext == [year |-> 0, league |-> ""]

\* Line 219 left out.
TooEarlyNever(year, league) == FALSE

\* Line 219: the final guard.
TooEarly(year, league) == league = "American League" /\ year < FirstALYear

get_year_league(h) ==
    IF ~h.present THEN NoContext
    ELSE IF ~HeaderMatch(h) THEN NoContext
    ELSE LET year == h.year
             league == Title(h.word) \o " League"
         IN IF TooEarly(year, league) THEN NoContext
            ELSE [year |-> year, league |-> league]

\* Line 180: the pages log_data skips after the header is parsed.
SkipPage(c) == c.year = 0 \/ c.league = ""

\* ------------------------------------------------------ events extractor
\* The events cell of a page is [found, lines]: whether a td containing
\* "Events" or "Salary" exists, and its lines, each [sep, title, items]:
\* whether the line contains ": ", what precedes it and the " | "-separated
\* items after it.
EventTitle(title) == title \in {"Special Events", "Salary"}

RECURSIVE EventLines(_, _)
EventLines(lines, k) ==
    IF k = 0 THEN EmptyDict
    ELSE LET line == lines[k]
         IN With(EventLines(lines, k - 1),
                 LAMBDA d :
                   IF ~line.sep THEN d
                   ELSE IF EventTitle(line.title)
                   THEN DictPut(d, line.title, line.items)
                   ELSE d)

clean_events(cell) ==
    IF ~cell.found THEN EmptyDict ELSE EventLines(cell.lines, Len(cell.lines))

\* Line 197 as "if not self.events.get(year)": an empty block counts as
\* missing.
EventsMissingOrEmpty(ev, year) == year \notin DOMAIN ev \/ ev[year] = EmptyDict

\* Line 197: the years whose events block is still to be written.
EventsMissing(ev, year) == year \notin DOMAIN ev

\* ----------------------------------------------------- the accumulators
\* self.player_stats and self.team_stats: year -> league -> kind -> records,
\* in insertion order: a sequence of [year, leagues], leagues a sequence of
\* [league, data].
AccYears(acc) == {acc[i].year : i \in 1..Len(acc)}

AccKeys(acc) ==
    UNION { {<<acc[i].year, acc[i].leagues[j].league>> :
                j \in 1..Len(acc[i].leagues)} : i \in 1..Len(acc) }

LeaguesPut(ls, league, data) ==
    IF \E j \in 1..Len(ls) : ls[j].league = league
    THEN [j \in 1..Len(ls) |->
            IF ls[j].league = league THEN [league |-> league, data |-> data]
            ELSE ls[j]]
    ELSE Append(ls, [league |-> league, data |-> data])

\* Lines 186-187: acc[year][league] = data.
AccPut(acc, year, league, data) ==
    IF year \in AccYears(acc)
    THEN [i \in 1..Len(acc) |->
            IF acc[i].year = year
            THEN [acc[i] EXCEPT !.leagues = LeaguesPut(@, league, data)]
            ELSE acc[i]]
    ELSE Append(acc, [year |-> year,
                      leagues |-> <<[league |-> league, data |-> data]>>])

AccGet(acc, year, league) ==
    LET yi == CHOOSE i \in 1..Len(acc) : acc[i].year = year
        li == CHOOSE j \in 1..Len(acc[yi].leagues) : acc[yi].leagues[j].league = league
    IN acc[yi].leagues[li].data

\* ----------------------------------------------------- schema normalizer
\* normalize_standings_row with line 472 moved out of the "Team | Roster"
\* branch: every record gets an empty Roster.
normalize_always_roster(items) ==
    IF DOMAIN items = {} THEN items
    ELSE
      LET out0 == items
          out1 == IF "Team [Click for roster]" \in DOMAIN out0 /\ "Team" \notin DOMAIN out0
                  THEN DictPut(DictDel(out0, "Team [Click for roster]"), "Team",
                               out0["Team [Click for roster]"])
                  ELSE out0
          out2 == LET team == IF "Team | Roster" \in DOMAIN out1
                              THEN LET value == out1["Team | Roster"]
                                       popped == DictDel(out1, "Team | Roster")
                                   IN IF "Team" \in DOMAIN popped THEN popped
                                      ELSE DictPut(popped, "Team", value)
                              ELSE out1
                  IN IF "Roster" \in DOMAIN team THEN team
                     ELSE DictPut(team, "Roster", "")
          out3 == IF "Wins" \in DOMAIN out2 /\ "W" \notin DOMAIN out2
                  THEN DictPut(DictDel(out2, "Wins"), "W", out2["Wins"])
                  ELSE out2
          out4 == IF "Losses" \in DOMAIN out3 /\ "L" \notin DOMAIN out3
                  THEN DictPut(DictDel(out3, "Losses"), "L", out3["Losses"])
                  ELSE out3
      IN out4

normalize_standings_row(items) ==
    IF DOMAIN items = {} THEN items
    ELSE
      LET out0 == items
          out1 == IF "Team [Click for roster]" \in DOMAIN out0 /\ "Team" \notin DOMAIN out0
                  THEN DictPut(DictDel(out0, "Team [Click for roster]"), "Team",
                               out0["Team [Click for roster]"])
                  ELSE out0
          out2 == IF "Team | Roster" \in DOMAIN out1
                  THEN LET value == out1["Team | Roster"]
                           popped == DictDel(out1, "Team | Roster")
                           team == IF "Team" \in DOMAIN popped THEN popped
                                   ELSE DictPut(popped, "Team", value)
                       IN IF "Roster" \in DOMAIN team THEN team
                          ELSE DictPut(team, "Roster", "")
                  ELSE out1
          out3 == IF "Wins" \in DOMAIN out2 /\ "W" \notin DOMAIN out2
                  THEN DictPut(DictDel(out2, "Wins"), "W", out2["Wins"])
                  ELSE out2
          out4 == IF "Losses" \in DOMAIN out3 /\ "L" \notin DOMAIN out3
                  THEN DictPut(DictDel(out3, "Losses"), "L", out3["Losses"])
                  ELSE out3
      IN out4

\* ------------------------------------------------------------ aggregator
\* add_to_table without the copy of line 510: the stamps go to the caller's
\* record.
add_to_table_in_place(table, items, year, league) ==
    IF DOMAIN items = {} THEN [table |-> table, items |-> items]
    ELSE LET stats == DictPut(DictPut(items, "Year", year), "League", league)
         IN [table |-> Append(table, stats), items |-> stats]

\* add_to_table (lines 505-513): the table after the call and the caller's
\* items after the call (line 510 copies them, so the stamps go to the copy).
add_to_table(table, items, year, league) ==
    IF DOMAIN items = {} THEN [table |-> table, items |-> items]
    ELSE LET stats == DictPut(DictPut(items, "Year", year), "League", league)
         IN [table |-> Append(table, stats), items |-> items]

\* pd.DataFrame(rows): the rows and the union of their keys as columns (the
\* order of the columns is not modelled).
DataFrame(rows) ==
    [columns |-> UNION {DOMAIN rows[k] : k \in 1..Len(rows)}, rows |-> rows]

\* Lines 482-503 without the drop of lines 497-498.
reorder_keep_roster(df) == df

\* Lines 482-503, without the order of the columns: Roster is dropped.
reorder_standing_columns(df) ==
    IF df.rows = <<>> THEN df
    ELSE IF "Roster" \in df.columns
    THEN [columns |-> df.columns \ {"Roster"},
          rows |-> [k \in 1..Len(df.rows) |->
                      IF "Roster" \in DOMAIN df.rows[k]
                      THEN DictDel(df.rows[k], "Roster") ELSE df.rows[k]]]
    ELSE df

\* data.get(kind, []).
KindOf(data, kind) == IF kind \in DOMAIN data THEN data[kind] ELSE <<>>

\* One of the three loops of lines 434-439 over the records of one kind.
RECURSIVE AddRecords(_, _, _, _, _, _)
AddRecords(table, recs, normalize, year, league, k) ==
    IF k = 0 THEN table
    ELSE LET items == IF normalize THEN normalize_standings_row(recs[k]) ELSE recs[k]
         IN With(AddRecords(table, recs, normalize, year, league, k - 1),
                 LAMBDA t : add_to_table(t, items, year, league).table)

\* The (year, league, data) triples of a dictionary in the order of lines
\* 432-433.
RECURSIVE Flatten(_, _)
Flatten(acc, i) ==
    IF i = 0 THEN <<>>
    ELSE Flatten(acc, i - 1) \o
         [j \in 1..Len(acc[i].leagues) |->
            [year |-> acc[i].year, league |-> acc[i].leagues[j].league,
             data |-> acc[i].leagues[j].data]]

RECURSIVE AddKind(_, _, _, _)
AddKind(entries, kind, normalize, k) ==
    IF k = 0 THEN <<>>
    ELSE LET e == entries[k]
             recs == KindOf(e.data, kind)
         IN With(AddKind(entries, kind, normalize, k - 1),
                 LAMBDA t : AddRecords(t, recs, normalize, e.year, e.league,
                                       Len(recs)))

Kinds == {"Hitting Statistics", "Pitching Statistics", "Standings"}

\* What the records of one (year, league) entry hold after lines 434-439:
\* a hitting or pitching record is the object add_to_table was given; a
\* standings record is not, normalize_standings_row hands on a copy of it
\* (line 460), or the record itself when it is empty (line 458), which
\* add_to_table leaves alone (line 507).
DataAfter(data, year, league) ==
    [kind \in DOMAIN data |->
        IF kind \in {"Hitting Statistics", "Pitching Statistics"}
        THEN [k \in 1..Len(data[kind]) |->
                add_to_table(<<>>, data[kind][k], year, league).items]
        ELSE data[kind]]

StoredAfter(acc) ==
    [i \in 1..Len(acc) |->
        [year |-> acc[i].year,
         leagues |-> [j \in 1..Len(acc[i].leagues) |->
                        [league |-> acc[i].leagues[j].league,
                         data |-> DataAfter(acc[i].leagues[j].data, acc[i].year,
                                            acc[i].leagues[j].league)]]]]

convert_stats_to_df(acc) ==
    LET entries == Flatten(acc, Len(acc))
        n == Len(entries)
    IN [hit |-> DataFrame(AddKind(entries, "Hitting Statistics", FALSE, n)),
        pitch |-> DataFrame(AddKind(entries, "Pitching Statistics", FALSE, n)),
        standing |-> reorder_standing_columns(
                        DataFrame(AddKind(entries, "Standings", TRUE, n))),
        dictionary |-> StoredAfter(acc)]

\* ------------------------------------------------------------ variables
VARIABLES
    \* get_data, one page: the scan state of the current table (lines 240-244),
    \* the row just scanned and what find_cell_data returned for it, the
    \* records assembled for the table (line 267) and the page's two maps.
    table_name, col_num, col_names, duplicate_rows, data_list,
    row, row_data, list_of_dicts, player_stats_dict, team_stats_dict,
    tpc,        \* "scan": inside a table, "filed": the table's scan is complete,
                \* "returned": get_data has returned, "off": not scanning
    nrows,      \* rows scanned on this page
    span_log,   \* per column index: the rowspan last declared there by a data
                \* cell and the reinsertions made from it since
    \* scrape, one run (lines 63-111)
    links,          \* what get_year_links returned (line 81)
    limit_years,    \* [given, n]: the limit_years argument, given: not None
    links_list,     \* the links log_data goes through (line 166)
    idx,            \* links of links_list the page loop is done with
    visited,        \* the links handed to driver.get, in order (line 173)
    page,           \* the page the last driver.get loaded, or failed to
    ctx,            \* year, league of line 179
    player_stats, team_stats, events,       \* lines 46-48
    frames,         \* the six DataFrames of lines 95-96
    outputs,        \* file name -> DataFrame written (lines 98-109)
    warnings,       \* warnings logged so far (lines 85, 176 and 181)
    pc,             \* "start", "pages", "returned" (line 86), "done" (line 111)
    \* get_year_links, one call (lines 114-160)
    anchors, league, year_links, lpc,
    \* normalize_standings_row and the standings table, one record (lines
    \* 438-442, 446-503)
    items,          \* the standings record handed to normalize_standings_row
    normalized,     \* what the call returned
    twice,          \* what a second call, on the result, returned
    standing_df,    \* the standings table made of the record (lines 439-442)
    npc,            \* "call", "normalized", "again", "tabulated", "off"
    \* get_data, one whole page (lines 225-280)
    boxed_tables,   \* the page's boxed tables (line 236)
    page_data,      \* [player, team]: what get_data returned (line 280)
    gpc             \* "call", "returned", "off"

scanVars == <<table_name, col_num, col_names, duplicate_rows, data_list,
              row, row_data, list_of_dicts, player_stats_dict, team_stats_dict,
              tpc, nrows, span_log>>

runVars == <<links, limit_years, links_list, idx, visited, page, ctx,
             player_stats, team_stats, events, frames, outputs, warnings, pc>>

linkVars == <<anchors, league, year_links, lpc>>

normVars == <<items, normalized, twice, standing_df, npc>>

pageVars == <<boxed_tables, page_data, gpc>>

vars == <<scanVars, runVars, linkVars, normVars, pageVars>>

\* ------------------------------------------------- the rows of the model
ColIdx == 0..(MaxCols - 1)

PlainText == <<"c1", "c2", "c3", "c4", "c5">>
SpanText == <<"E0", "E1", "E2", "E3", "E4">>

NoRow == [headers |-> <<>>, colspan |-> 0, banners |-> <<>>, cells |-> <<>>]

HeaderLines ==
    { <<"Player Review", "Hitting Statistics">>,
      <<"Team Standings">>,
      <<"Other", "Hitting Statistics">>,
      <<"Other">> }

HeaderRows ==
    { [NoRow EXCEPT !.headers = h, !.colspan = c] :
        h \in HeaderLines, c \in {0} \cup ((MaxCols - 1)..MaxCols) }

Banner(texts, span) ==
    [NoRow EXCEPT !.banners =
        [k \in 1..Len(texts) |->
            [text |-> texts[k], rowspan |-> IF k = 1 THEN span ELSE 0]]]

BannerRows ==
    { Banner(<<"Team [Click for roster]", "W">>, 0),
      Banner(<<"East", "W", "L">>, 0),
      Banner(<<"East", "W", "L">>, MaxSpan),
      Banner(<<"East", "West", "W">>, 0) }

\* A data row of n cells; cell i (0-based) declares rowspan span when span > 0.
DataRow(n, i, span) ==
    [NoRow EXCEPT !.cells =
        [k \in 1..n |->
            IF span > 0 /\ k = i + 1
            THEN [text |-> SpanText[k], rowspan |-> span]
            ELSE [text |-> PlainText[k], rowspan |-> 0]]]

PaddedRow ==
    [NoRow EXCEPT !.cells = <<[text |-> " c1 ", rowspan |-> 0],
                              [text |-> "c2", rowspan |-> 0]>>]

DataRows ==
    { DataRow(n, 0, 0) : n \in 1..MaxCols }
    \cup { DataRow(n, i, span) : n \in 1..MaxCols, i \in 0..1, span \in 1..MaxSpan }
    \cup { PaddedRow }

Rows == HeaderRows \cup BannerRows \cup DataRows

\* ------------------------------------------------- get_data, row by row
ScanState ==
    [table_name |-> table_name, col_num |-> col_num, col_names |-> col_names,
     duplicate_rows |-> duplicate_rows, data_list |-> data_list]

NoSpans == [i \in ColIdx |-> [declared |-> 0, reinserted |-> 0]]

\* The log after a row: a declaration restarts the column's count, a
\* reinsertion into a following row adds one to it.
LogRow(log, r, cd) ==
    [i \in ColIdx |->
        IF i + 1 <= Len(r.cells) /\ r.cells[i + 1].rowspan # 0
        THEN [declared |-> r.cells[i + 1].rowspan, reinserted |-> 0]
        ELSE IF i \in cd.reinserted
        THEN [log[i] EXCEPT !.reinserted = @ + 1]
        ELSE log[i]]

\* ------------------------------------------- the inputs of a run
MaxAnchors == 2   \* anchors on the year menu
MaxLimit == 1     \* largest limit_years

Years == {1900, 1901}

Hrefs ==
    { [year |-> y, code |-> c] : y \in Years, c \in {"a", "n", "f"} }
    \cup { [year |-> 0, code |-> ""] }

Menus == UNION { [1..n -> Hrefs] : n \in 0..MaxAnchors }

Leagues == {"AL", "NL", "BOTH"}

Limits ==
    { [given |-> FALSE, n |-> 0] }
    \cup { [given |-> TRUE, n |-> k] : k \in (-1)..MaxLimit }

NoHeading == [present |-> FALSE, year |-> 0, word |-> ""]

Headings ==
    { NoHeading }
    \cup { [present |-> TRUE, year |-> y, word |-> w] :
             y \in {0} \cup Years, w \in {"AMERICAN", "National", "FEDERAL"} }

HeaderRow(h, c) == [NoRow EXCEPT !.headers = h, !.colspan = c]

Cells(texts) ==
    [NoRow EXCEPT !.cells = [k \in 1..Len(texts) |-> [text |-> texts[k], rowspan |-> 0]]]

\* The text that names a page in its cells: its heading and its variant.
PageTag(h, v) == ToString(h.year) \o " " \o h.word \o " " \o v

\* The boxed tables of the two page variants; t is the page's tag.
PlayerHitting(t) ==
    << HeaderRow(<<"Player Review", "Hitting Statistics">>, 2),
       Banner(<<"Name", "HR">>, 0),
       Cells(<<t, "40">>), Cells(<<"Top 25">>), Cells(<<t, "35">>) >>

TeamStandings(t) ==
    << HeaderRow(<<"Team Standings">>, 3),
       Banner(<<"East", "Team [Click for roster]", "Wins">>, 0),
       [NoRow EXCEPT !.cells = << [text |-> "East", rowspan |-> 2],
                                  [text |-> t, rowspan |-> 0],
                                  [text |-> "90", rowspan |-> 0] >>],
       Cells(<<t, "80">>) >>

TeamPitching(t) ==
    << HeaderRow(<<"Team Review", "Pitching Statistics">>, 2),
       Banner(<<"Team", "ERA">>, 0),
       Cells(<<t, "3.10">>) >>

PitcherPitching(t) ==
    << HeaderRow(<<"Pitcher Review", "Pitching Statistics">>, 2),
       Banner(<<"Name", "ERA">>, 0),
       Cells(<<t, "2.10">>) >>

TeamHitting(t) ==
    << HeaderRow(<<"Team Review", "Hitting Statistics">>, 2),
       Banner(<<"Team", "HR">>, 0),
       Cells(<<t, "200">>) >>

Decorative(t) ==
    << HeaderRow(<<"Other">>, 0), Banner(<<"Name", "HR">>, 0), Cells(<<t, "1">>) >>

PageTables(t, v) ==
    IF v = "A" THEN << PlayerHitting(t), TeamStandings(t), TeamPitching(t) >>
    ELSE << PitcherPitching(t), Decorative(t), TeamHitting(t) >>

\* Variant A has no events cell; variant B has one, with a line that holds no
\* ": " and a line under another title.
PageEvents(t, v) ==
    IF v = "A" THEN [found |-> FALSE, lines |-> <<>>]
    ELSE [found |-> TRUE,
          lines |-> << [sep |-> TRUE, title |-> "Special Events",
                        items |-> <<t, "All-Star Game">>],
                       [sep |-> FALSE, title |-> "", items |-> <<>>],
                       [sep |-> TRUE, title |-> "Notes", items |-> <<"n">>] >>]

MkPage(ok, h, v) ==
    [ok |-> ok, heading |-> h, tag |-> PageTag(h, v),
     tables |-> PageTables(PageTag(h, v), v),
     events |-> PageEvents(PageTag(h, v), v)]

\* A driver.get that raised.
FailedPage == MkPage(FALSE, NoHeading, "A")

Pages == { FailedPage } \cup { MkPage(TRUE, h, v) : h \in Headings, v \in {"A", "B"} }

NoFrame == [columns |-> {}, rows |-> <<>>]

NoFrames ==
    [player_hit |-> NoFrame, player_pitch |-> NoFrame, player_standing |-> NoFrame,
     team_hit |-> NoFrame, team_pitch |-> NoFrame, standing |-> NoFrame]

\* The variables of a part of the program that a specification leaves out.
ScanIdle ==
    /\ table_name = <<>> /\ col_num = 0 /\ col_names = <<>>
    /\ duplicate_rows = <<>> /\ data_list = <<>>
    /\ row = NoRow /\ row_data = <<>> /\ list_of_dicts = <<>>
    /\ player_stats_dict = EmptyDict /\ team_stats_dict = EmptyDict
    /\ tpc = "off" /\ nrows = 0
    /\ span_log = NoSpans

RunIdle ==
    /\ links = <<>> /\ limit_years = [given |-> FALSE, n |-> 0]
    /\ links_list = <<>> /\ idx = 0 /\ visited = <<>>
    /\ page = FailedPage /\ ctx = NoContext
    /\ player_stats = <<>> /\ team_stats = <<>> /\ events = EmptyDict
    /\ frames = NoFrames /\ outputs = EmptyDict /\ warnings = 0
    /\ pc = "off"

LinksIdle ==
    /\ anchors = <<>> /\ league = "BOTH" /\ year_links = <<>> /\ lpc = "off"

NormIdle ==
    /\ items = EmptyDict /\ normalized = EmptyDict /\ twice = EmptyDict
    /\ standing_df = NoFrame /\ npc = "off"

PageIdle ==
    /\ boxed_tables = <<>> /\ page_data = EmptyMaps /\ gpc = "off"

RowsInit ==
    /\ table_name = <<>> /\ col_num = 0 /\ col_names = <<>>
    /\ duplicate_rows = <<>> /\ data_list = <<>>
    /\ row = NoRow /\ row_data = <<>> /\ list_of_dicts = <<>>
    /\ player_stats_dict = EmptyDict /\ team_stats_dict = EmptyDict
    /\ tpc = "scan" /\ nrows = 0
    /\ span_log = NoSpans
    /\ RunIdle /\ LinksIdle /\ NormIdle /\ PageIdle

\* Lines 247-264: the next row of the current table.
ScanNextRow ==
    /\ tpc = "scan"
    /\ nrows < MaxRows
    /\ \E r \in Rows :
       \E st \in {ScanRow(ScanState, r)},
          cd \in {find_cell_data(r, col_num, duplicate_rows)} :
            /\ table_name' = st.table_name
            /\ col_num' = st.col_num
            /\ col_names' = st.col_names
            /\ duplicate_rows' = st.duplicate_rows
            /\ data_list' = st.data_list
            /\ row' = r
            /\ row_data' = cd.data
            /\ span_log' = LogRow(span_log, r, cd)
    /\ nrows' = nrows + 1
    /\ UNCHANGED <<list_of_dicts, player_stats_dict, team_stats_dict, tpc>>
    /\ UNCHANGED <<runVars, linkVars, normVars, pageVars>>

\* Lines 266-271: the table has no more rows.
EndTable ==
    /\ tpc = "scan"
    /\ \E d \in {FileTable([player |-> player_stats_dict,
                              team |-> team_stats_dict], ScanState)} :
          /\ player_stats_dict' = d.player
          /\ team_stats_dict' = d.team
    /\ list_of_dicts' = IF FileGuard(ScanState)
                        THEN ListOfDicts(col_names, data_list) ELSE <<>>
    /\ tpc' = "filed"
    /\ UNCHANGED <<table_name, col_num, col_names, duplicate_rows, data_list,
                   row, row_data, nrows, span_log>>
    /\ UNCHANGED <<runVars, linkVars, normVars, pageVars>>

\* Lines 239-244: the page has another table.
BeginTable ==
    /\ tpc = "filed"
    /\ nrows < MaxRows
    /\ table_name' = NewTable.table_name
    /\ col_num' = NewTable.col_num
    /\ col_names' = NewTable.col_names
    /\ duplicate_rows' = NewTable.duplicate_rows
    /\ data_list' = NewTable.data_list
    /\ row' = NoRow /\ row_data' = <<>> /\ list_of_dicts' = <<>>
    /\ span_log' = NoSpans
    /\ tpc' = "scan"
    /\ UNCHANGED <<player_stats_dict, team_stats_dict, nrows>>
    /\ UNCHANGED <<runVars, linkVars, normVars, pageVars>>

\* Line 280: the page has no more tables.
ReturnData ==
    /\ tpc = "filed"
    /\ tpc' = "returned"
    /\ UNCHANGED <<table_name, col_num, col_names, duplicate_rows, data_list,
                   row, row_data, list_of_dicts, player_stats_dict,
                   team_stats_dict, nrows, span_log>>
    /\ UNCHANGED <<runVars, linkVars, normVars, pageVars>>

RowsNext == ScanNextRow \/ EndTable \/ BeginTable \/ ReturnData

SpecRows == RowsInit /\ [][RowsNext]_vars

\* ------------------------------------------------ get_year_links, a call
LinksInit ==
    /\ anchors \in Menus /\ league \in Leagues
    /\ year_links = <<>> /\ lpc = "call"
    /\ ScanIdle /\ RunIdle /\ NormIdle /\ PageIdle

GetYearLinks ==
    /\ lpc = "call"
    /\ year_links' = get_year_links(anchors, league)
    /\ lpc' = "returned"
    /\ UNCHANGED <<anchors, league>>
    /\ UNCHANGED <<scanVars, runVars, normVars, pageVars>>

LinksNext == GetYearLinks

SpecLinks == LinksInit /\ [][LinksNext]_vars

\* ------------------------------------------------------- scrape, a run
Init ==
    /\ links = <<>> /\ limit_years = [given |-> FALSE, n |-> 0]
    /\ links_list = <<>> /\ idx = 0 /\ visited = <<>>
    /\ page = FailedPage /\ ctx = NoContext
    /\ player_stats = <<>> /\ team_stats = <<>> /\ events = EmptyDict
    /\ frames = NoFrames /\ outputs = EmptyDict /\ warnings = 0
    /\ pc = "start"
    /\ ScanIdle /\ LinksIdle /\ NormIdle /\ PageIdle

\* Lines 79-90, up to the call of log_data: the links are collected from the
\* menu and cut to the limit, or the run returns at once.
Scrape ==
    /\ pc = "start"
    /\ \E menu \in Menus, lg \in Leagues, limit \in Limits :
         LET found == get_year_links(menu, lg)
         IN /\ links' = found
            /\ limit_years' = limit
            /\ IF NothingToScrape(limit)
               THEN /\ links_list' = <<>>
                    /\ warnings' = warnings + 1
                    /\ pc' = "returned"
               ELSE /\ links_list' = IF limit.given THEN Truncate(found, limit.n)
                                     ELSE found
                    /\ warnings' = warnings
                    /\ pc' = "pages"
    /\ UNCHANGED <<idx, visited, page, ctx, player_stats, team_stats, events,
                   frames, outputs>>
    /\ UNCHANGED <<scanVars, linkVars, normVars, pageVars>>

\* Lines 177 and 182 as "break": the loop ends at the page it skips.
AfterSkipBreak(i, n) == n

\* Lines 177 and 182, "continue": the index the loop goes on with after a
\* page it skips; n is the number of links.
AfterSkip(i, n) == i + 1

\* Lines 170-199: one link of the page loop.
LogPage ==
    /\ pc = "pages"
    /\ idx < Len(links_list)
    /\ \E p \in Pages :
       \E c \in {IF p.ok THEN get_year_league(p.heading) ELSE ctx},
          d \in {GetData(p.tables, Len(p.tables))} :
            /\ page' = p
            /\ ctx' = c
            /\ visited' = Append(visited, links_list[idx + 1])
            /\ IF ~p.ok \/ SkipPage(c)
               THEN /\ idx' = AfterSkip(idx, Len(links_list))
                    /\ warnings' = warnings + 1
                    /\ UNCHANGED <<player_stats, team_stats, events>>
               ELSE /\ idx' = idx + 1
                    /\ warnings' = warnings
                    /\ player_stats' = AccPut(player_stats, c.year, c.league, d.player)
                    /\ team_stats' = AccPut(team_stats, c.year, c.league, d.team)
                    /\ events' = IF EventsMissing(events, c.year)
                                 THEN DictPut(events, c.year, clean_events(p.events))
                                 ELSE events
    /\ UNCHANGED <<links, limit_years, links_list, frames, outputs, pc>>
    /\ UNCHANGED <<scanVars, linkVars, normVars, pageVars>>

\* Lines 94-111: the page loop is over; the stats are flattened and written.
ConvertAndWrite ==
    /\ pc = "pages"
    /\ idx >= Len(links_list)
    /\ \E p \in {convert_stats_to_df(player_stats)},
          t \in {convert_stats_to_df(team_stats)} :
          /\ frames' = [player_hit |-> p.hit, player_pitch |-> p.pitch,
                        player_standing |-> p.standing,
                        team_hit |-> t.hit, team_pitch |-> t.pitch,
                        standing |-> t.standing]
          /\ outputs' = [f \in {"player_hit.csv", "player_pitch.csv", "team_hit.csv",
                                "team_pitch.csv", "standing.csv"} |->
                           IF f = "player_hit.csv" THEN p.hit
                           ELSE IF f = "player_pitch.csv" THEN p.pitch
                           ELSE IF f = "team_hit.csv" THEN t.hit
                           ELSE IF f = "team_pitch.csv" THEN t.pitch
                           ELSE t.standing]
          /\ player_stats' = p.dictionary
          /\ team_stats' = t.dictionary
    /\ pc' = "done"
    /\ UNCHANGED <<links, limit_years, links_list, idx, visited, page, ctx, events,
                   warnings>>
    /\ UNCHANGED <<scanVars, linkVars, normVars, pageVars>>

Next == Scrape \/ LogPage \/ ConvertAndWrite

Spec == Init /\ [][Next]_vars

\* ------------------------------ normalize_standings_row, on one record
\* The column names a standings record may have: the canonical ones, their
\* aliases and one that normalization leaves alone.
StandingKeys ==
    {"Team", "Team [Click for roster]", "Team | Roster", "Roster",
     "W", "Wins", "L", "Losses", "GB"}

\* The cell under a column: one text per column, so that a value can be
\* followed from key to key.
CellOf(key) == "cell of " \o key

StandingRecords == { [key \in K |-> CellOf(key)] : K \in SUBSET StandingKeys }

NormInit ==
    /\ items \in StandingRecords
    /\ normalized = EmptyDict /\ twice = EmptyDict
    /\ standing_df = NoFrame /\ npc = "call"
    /\ ScanIdle /\ RunIdle /\ LinksIdle /\ PageIdle

\* Line 439: normalize_standings_row(items).
Normalize ==
    /\ npc = "call"
    /\ normalized' = normalize_standings_row(items)
    /\ npc' = "normalized"
    /\ UNCHANGED <<items, twice, standing_df>>
    /\ UNCHANGED <<scanVars, runVars, linkVars, pageVars>>

\* normalize_standings_row applied to its own result.
NormalizeAgain ==
    /\ npc = "normalized"
    /\ twice' = normalize_standings_row(normalized)
    /\ npc' = "again"
    /\ UNCHANGED <<items, normalized, standing_df>>
    /\ UNCHANGED <<scanVars, runVars, linkVars, pageVars>>

\* Lines 438-442: the standings table of a dictionary that holds the one
\* record, under 1901 / National League.
Tabulate ==
    /\ npc = "again"
    /\ standing_df' = reorder_standing_columns(
                         DataFrame(AddRecords(<<>>, <<items>>, TRUE, 1901,
                                              "National League", 1)))
    /\ npc' = "tabulated"
    /\ UNCHANGED <<items, normalized, twice>>
    /\ UNCHANGED <<scanVars, runVars, linkVars, pageVars>>

NormNext == Normalize \/ NormalizeAgain \/ Tabulate

SpecNorm == NormInit /\ [][NormNext]_vars

\* ------------------------------------------------ get_data, a whole page
MaxTables == 3    \* boxed tables on one page

\* A table without identity that ends with a row kept in its row list and a
\* rowspan still pending.
Orphan(t) ==
    << HeaderRow(<<"Other">>, 0),
       Banner(<<"Region", "Name">>, 0),
       [NoRow EXCEPT !.cells = << [text |-> "East", rowspan |-> 2],
                                  [text |-> t, rowspan |-> 0] >>] >>

BoxedTables ==
    { PlayerHitting("p"), TeamStandings("s"), TeamPitching("t"),
      PitcherPitching("q"), TeamHitting("h"), Decorative("d"), Orphan("o") }

PageInit ==
    /\ boxed_tables \in UNION { [1..n -> BoxedTables] : n \in 0..MaxTables }
    /\ page_data = EmptyMaps /\ gpc = "call"
    /\ ScanIdle /\ RunIdle /\ LinksIdle /\ NormIdle

GetDataCall ==
    /\ gpc = "call"
    /\ page_data' = GetData(boxed_tables, Len(boxed_tables))
    /\ gpc' = "returned"
    /\ UNCHANGED boxed_tables
    /\ UNCHANGED <<scanVars, runVars, linkVars, normVars>>

PageNext == GetDataCall

SpecPage == PageInit /\ [][PageNext]_vars

\* ------------------------------------------- claims on the whole page
\* What get_data files for table k when it is the only table of the page.
Alone(k) == GetData(<<boxed_tables[k]>>, 1)

\* C17 (the page): every table is filed as it is when alone on the page,
\* whatever tables precede it, unless a later table of the page is filed
\* under the same category and kind; nothing else is filed.
C17_TablesIndependent ==
    gpc = "returned" =>
        \A m \in {"player", "team"} :
            /\ \A k \in 1..Len(boxed_tables) :
                  \A kind \in DOMAIN Alone(k)[m] :
                      (\A j \in (k + 1)..Len(boxed_tables) :
                           kind \notin DOMAIN Alone(j)[m]) =>
                          /\ kind \in DOMAIN page_data[m]
                          /\ page_data[m][kind] = Alone(k)[m][kind]
            /\ DOMAIN page_data[m] =
                   UNION { DOMAIN Alone(k)[m] : k \in 1..Len(boxed_tables) }

\* A page where a filed table and a dropped table, each ending with a
\* rowspan pending, precede a table with a short row.
C17_Witness ==
    /\ gpc = "returned"
    /\ boxed_tables = << TeamStandings("s"), Orphan("o"), PlayerHitting("p") >>
    /\ Len(page_data.player["Hitting Statistics"]) = 2
    /\ "Standings" \in DOMAIN page_data.team

\* -------------------------------------------- claims on the normalizer
\* A record in the canonical schema: it has none of the alias columns.
Canonical(r) ==
    DOMAIN r \cap {"Team [Click for roster]", "Team | Roster", "Wins", "Losses"} = {}

\* C11: normalizing the result of a normalization gives that result again,
\* for every record, and normalizing a canonical record gives the record.
C11_NormalizeIdempotent ==
    /\ npc \in {"again", "tabulated"} => twice = normalized
    /\ (npc \in {"normalized", "again", "tabulated"} /\ Canonical(items)) =>
           normalized = items

\* A record with aliases was normalized twice, and the first call changed it.
C11_Witness ==
    /\ npc = "again"
    /\ {"Team | Roster", "Wins", "W"} \subseteq DOMAIN items
    /\ normalized # items

\* C12: for a record without Team, W and L, the value of "Team [Click for
\* roster]", or else of "Team | Roster", is under Team, the value of Wins is
\* under W and the value of Losses is under L, and the standings table has no
\* Wins, Losses, "Team [Click for roster]", "Team | Roster" or Roster column.
C12_AliasesMoved ==
    (npc \in {"normalized", "again", "tabulated"}
     /\ DOMAIN items \cap {"Team", "W", "L"} = {}) =>
        /\ "Team [Click for roster]" \in DOMAIN items =>
               /\ "Team" \in DOMAIN normalized
               /\ normalized["Team"] = items["Team [Click for roster]"]
        /\ ("Team | Roster" \in DOMAIN items
            /\ "Team [Click for roster]" \notin DOMAIN items) =>
               /\ "Team" \in DOMAIN normalized
               /\ normalized["Team"] = items["Team | Roster"]
        /\ "Wins" \in DOMAIN items =>
               "W" \in DOMAIN normalized /\ normalized["W"] = items["Wins"]
        /\ "Losses" \in DOMAIN items =>
               "L" \in DOMAIN normalized /\ normalized["L"] = items["Losses"]
        /\ \A key \in DOMAIN normalized \ {"Team", "W", "L", "Roster"} :
               key \in DOMAIN items /\ normalized[key] = items[key]
        /\ npc = "tabulated" =>
               LET aliases == {"Wins", "Losses", "Team [Click for roster]",
                               "Team | Roster", "Roster"}
               IN /\ standing_df.columns \cap aliases = {}
                  /\ \A k \in 1..Len(standing_df.rows) :
                         DOMAIN standing_df.rows[k] \cap aliases = {}

\* The record of the scenario, with a combined "Team | Roster" column, was
\* normalized and tabulated.
C12_Witness ==
    /\ npc = "tabulated"
    /\ DOMAIN items = {"Team | Roster", "Wins", "Losses"}
    /\ Len(standing_df.rows) = 1
    /\ standing_df.rows[1]["Team"] = CellOf("Team | Roster")

\* ------------------------------------------------ claims on the row scan
\* The row scanned by the last step had data cells and did not join the row
\* list: its cell count, after reinsertion, differs from the column count.
RowDropped(names, data) == data # <<>> /\ Len(data) # Len(names)

\* C1: a rowspan=N declared by a data cell at index i is reinserted into at
\* most N-1 following rows, and once N-1 reinsertions have been made the carry
\* map has no entry for i.
C1_CarryEndsAfterNMinus1 ==
    \A i \in ColIdx :
        span_log[i].declared > 0 =>
            /\ span_log[i].reinserted <= span_log[i].declared - 1
            /\ (span_log[i].reinserted >= 1
                /\ span_log[i].reinserted = span_log[i].declared - 1)
               => i \notin CarryKeys(duplicate_rows)

\* The row declares no rowspan of its own.
NoOwnSpan(r) == \A k \in 1..Len(r.cells) : r.cells[k].rowspan = 0

\* C2: a data row that is dropped is not added to the row list and leaves the
\* carry map as it was before the row: no pending value is removed and no
\* remaining count is changed by it (rows that declare a rowspan themselves
\* are left aside, they add to the map).
C2_DroppedRowKeepsCarry ==
    [][(nrows' = nrows + 1 /\ RowDropped(col_names', row_data') /\ NoOwnSpan(row'))
        => /\ data_list' = data_list
           /\ duplicate_rows' = duplicate_rows]_vars

\* C5: every record filed for a table has as many columns as the table's
\* column set, and holds each cell of its row under the column name of the
\* same index.
C5_RecordsMatchColumns ==
    tpc = "filed" =>
        \A j \in 1..Len(list_of_dicts) :
            /\ Cardinality(DOMAIN list_of_dicts[j]) = Len(col_names)
            /\ Len(data_list[j]) = Len(col_names)
            /\ \A k \in 1..Len(col_names) :
                   list_of_dicts[j][col_names[k]] = data_list[j][k]

\* The last step scanned a row of the current table.
RowStep == nrows' = nrows + 1

\* C13: after a banner row whose cell at index i declares rowspan=N, the
\* carry map holds i -> (cell text, N).
C13_BannerCarryHeld ==
    \A k \in 1..Len(row.banners) :
        row.banners[k].rowspan # 0 =>
            /\ (k - 1) \in CarryKeys(duplicate_rows)
            /\ CarryAt(duplicate_rows, k - 1) =
                   [idx |-> k - 1, text |-> row.banners[k].text,
                    n |-> row.banners[k].rowspan]

\* C14: once a row of a table has set the expected column count, no later
\* row of the table changes it.
C14_ColumnCountFirstWriter ==
    [][(RowStep /\ col_num # 0) => col_num' = col_num]_vars

\* C15: a table whose scan ends with a non-empty identity, column set and
\* record list is filed, under its kind, in the player or the team map, and a
\* table that lacks one of the three leaves both maps as they were.
C15_FiledIffComplete ==
    /\ [](tpc = "filed" =>
            ((table_name # <<>> /\ col_names # <<>> /\ data_list # <<>>) =>
                LET kind == table_name[Len(table_name)]
                IN \/ /\ kind \in DOMAIN player_stats_dict
                      /\ player_stats_dict[kind] = list_of_dicts
                   \/ /\ kind \in DOMAIN team_stats_dict
                      /\ team_stats_dict[kind] = list_of_dicts))
    /\ [][(tpc = "scan" /\ tpc' = "filed"
           /\ (table_name = <<>> \/ col_names = <<>> \/ data_list = <<>>)) =>
              /\ player_stats_dict' = player_stats_dict
              /\ team_stats_dict' = team_stats_dict]_vars

\* The pending values inserted lowest index first.
RECURSIVE InsertAscending(_, _, _)
InsertAscending(data, dup, k) ==
    IF k = 0 THEN data
    ELSE LET prev == InsertAscending(data, dup, k - 1)
         IN IF (k - 1) \in CarryKeys(dup)
            THEN ListInsert(prev, k - 1, CarryAt(dup, k - 1).text)
            ELSE prev

\* C16: a data row whose cell count differs from the expected column count,
\* with a non-empty carry map, gets the pending values inserted in ascending
\* order of index, every entry is decremented and the entries at zero are
\* purged; any other data row gets no value and no count is changed.
C16_ReinsertAscending ==
    [][(RowStep /\ row'.cells # <<>>) =>
        LET raw == [k \in 1..Len(row'.cells) |-> Strip(row'.cells[k].text)]
            before == CellCarry(duplicate_rows, row'.cells, Len(row'.cells))
            fill == col_num # 0 /\ Len(raw) # col_num /\ before # <<>>
        IN IF fill
           THEN /\ row_data' = InsertAscending(raw, before, MaxCols)
                /\ Range(duplicate_rows') =
                       { [e EXCEPT !.n = @ - 1] : e \in {x \in Range(before) : x.n > 1} }
           ELSE /\ row_data' = raw
                /\ Range(duplicate_rows') = Range(before)]_vars

\* -------------------------------------------------- claims on the page loop
\* The step loads a page (line 173).
PageStep == Len(visited') = Len(visited) + 1

\* The page the step loads is skipped: driver.get raised, or the header gave
\* no year or no league.
PageSkipped == PageStep /\ (~page'.ok \/ ctx'.year = 0 \/ ctx'.league = "")

\* The page the step loads is recorded.
PageRecorded == PageStep /\ page'.ok /\ ctx'.year # 0 /\ ctx'.league # ""

\* C3: a page that fails to load or gives no context leaves the player, team
\* and events accumulators as they were, the loop goes on with the next link,
\* and a run that ends has visited every link of the list, in order.
C3_SkippedPageIsolated ==
    /\ [][PageSkipped =>
            /\ player_stats' = player_stats
            /\ team_stats' = team_stats
            /\ events' = events
            /\ idx' = idx + 1]_vars
    /\ [](visited = SubSeq(links_list, 1, Len(visited)))
    /\ [](pc = "done" => visited = links_list)

\* A page was skipped and the link after it was loaded and recorded.
C3_Witness ==
    /\ pc = "pages" /\ warnings = 1 /\ Len(visited) = 2
    /\ page.ok /\ ctx # NoContext
    /\ AccKeys(player_stats) = {<<ctx.year, ctx.league>>}

\* C4: what a page stored under a (year, league) key of the player or the
\* team accumulator is still there, unchanged, after every later page.
C4_AccumulatorsAppendOnly ==
    [][PageStep =>
        /\ \A key \in AccKeys(player_stats) :
               /\ key \in AccKeys(player_stats')
               /\ AccGet(player_stats', key[1], key[2])
                      = AccGet(player_stats, key[1], key[2])
        /\ \A key \in AccKeys(team_stats) :
               /\ key \in AccKeys(team_stats')
               /\ AccGet(team_stats', key[1], key[2])
                      = AccGet(team_stats, key[1], key[2])]_vars

\* The (year, league) label a heading of the catalogue stands for.
LeagueLabel(word) ==
    IF word = "AMERICAN" THEN "American League" ELSE "National League"

\* The page a record of the catalogue was extracted from: every page writes
\* its tag into the Name or Team cell of its rows.
RecordTag(r) == IF "Name" \in DOMAIN r THEN r["Name"] ELSE r["Team"]

SourcePage(r) == CHOOSE p \in Pages : p.ok /\ p.tag = RecordTag(r)

Stamped(r) ==
    /\ {"Year", "League"} \subseteq DOMAIN r
    /\ r["Year"] = SourcePage(r).heading.year
    /\ r["League"] = LeagueLabel(SourcePage(r).heading.word)

\* The positions of the records of one kind in a dictionary.
StoredRecords(acc, kind) ==
    UNION { UNION { { <<i, j, k>> :
                        k \in 1..Len(KindOf(acc[i].leagues[j].data, kind)) } :
                    j \in 1..Len(acc[i].leagues) } :
            i \in 1..Len(acc) }

\* A flat table of one kind against the dictionary it was made from: one row
\* per stored record, every row stamped with the context of its page and, but
\* for the stamps, a record stored under that (year, league).
FlatOf(df, acc, kind) ==
    /\ Len(df.rows) = Cardinality(StoredRecords(acc, kind))
    /\ \A k \in 1..Len(df.rows) :
          LET r == df.rows[k]
          IN /\ Stamped(r)
             /\ <<r["Year"], r["League"]>> \in AccKeys(acc)
             /\ kind \in {"Hitting Statistics", "Pitching Statistics"} =>
                    \E n \in 1..Len(KindOf(AccGet(acc, r["Year"], r["League"]), kind)) :
                        KindOf(AccGet(acc, r["Year"], r["League"]), kind)[n]
                            = DictDel(DictDel(r, "Year"), "League")

\* C6: after convert_stats_to_df every row of the six flat tables has the
\* Year and League of the page it was extracted from, there is one row per
\* stored record, and the conversion leaves the two dictionaries as they were.
C6_StampedOnceSourceKept ==
    /\ [](pc = "done" =>
            /\ FlatOf(frames.player_hit, player_stats, "Hitting Statistics")
            /\ FlatOf(frames.player_pitch, player_stats, "Pitching Statistics")
            /\ FlatOf(frames.player_standing, player_stats, "Standings")
            /\ FlatOf(frames.team_hit, team_stats, "Hitting Statistics")
            /\ FlatOf(frames.team_pitch, team_stats, "Pitching Statistics")
            /\ FlatOf(frames.standing, team_stats, "Standings"))
    /\ [][pc' = "done" =>
            /\ player_stats' = player_stats
            /\ team_stats' = team_stats]_vars

\* A run that recorded two pages of different years or leagues and flattened
\* hitting, pitching and standings records.
C6_Witness ==
    /\ pc = "done"
    /\ Cardinality(AccKeys(team_stats)) = 2
    /\ frames.player_hit.rows # <<>>
    /\ frames.player_pitch.rows # <<>>
    /\ frames.team_pitch.rows # <<>>
    /\ Len(frames.standing.rows) >= 2

\* The events block the cell of a page of the catalogue stands for.
EventsOf(p) ==
    IF p.events.found
    THEN [title \in {"Special Events"} |-> <<p.tag, "All-Star Game">>]
    ELSE EmptyDict

\* C7: the block of a year, once written, is never changed, and the first
\* recorded page of a year writes the block of its events cell, empty or
\* not.
C7_EventsWrittenOnce ==
    [][/\ \A y \in DOMAIN events :
             y \in DOMAIN events' /\ events'[y] = events[y]
       /\ PageRecorded =>
             /\ ctx'.year \in DOMAIN events'
             /\ ctx'.year \notin DOMAIN events =>
                    events'[ctx'.year] = EventsOf(page')]_vars

\* A year whose first page left an empty block, after a later page of the
\* same year with a non-empty events cell was recorded.
C7_Witness ==
    /\ pc = "pages" /\ Len(visited) = 2 /\ warnings = 0
    /\ page.ok /\ ctx # NoContext /\ page.events.found
    /\ ctx.year \in DOMAIN events
    /\ events[ctx.year] = EmptyDict

\* C9: a run with a limit <= 0 loads no page and ends with the five output
\* tables written empty; a run with a limit N > 0 that ends has loaded the
\* first N collected links.
C9_NonPositiveLimitEmptyTables ==
    /\ (pc \in {"returned", "done"} /\ limit_years.given /\ limit_years.n <= 0) =>
           /\ visited = <<>>
           /\ DOMAIN outputs = {"player_hit.csv", "player_pitch.csv", "team_hit.csv",
                                "team_pitch.csv", "standing.csv"}
           /\ \A f \in DOMAIN outputs : outputs[f].rows = <<>>
    /\ (pc = "done" /\ limit_years.given /\ limit_years.n > 0) =>
           visited = SubSeq(links, 1, Min(limit_years.n, Len(links)))

\* C10: the header parser gives no context for a page without heading, with
\* a heading that does not match, and for the American League before 1901;
\* otherwise it gives the year and "American League" or "National League";
\* a page without context changes no accumulator.
C10_HeaderFailsClosed ==
    [][(PageStep /\ page'.ok) =>
        LET h == page'.heading
            matches == h.present /\ h.year # 0 /\ h.word \in {"AMERICAN", "National"}
        IN /\ ~matches => ctx' = NoContext
           /\ (matches /\ h.word = "AMERICAN" /\ h.year < 1901) => ctx' = NoContext
           /\ (matches /\ h.word = "AMERICAN" /\ h.year >= 1901) =>
                  ctx' = [year |-> h.year, league |-> "American League"]
           /\ (matches /\ h.word = "National") =>
                  ctx' = [year |-> h.year, league |-> "National League"]
           /\ ctx' = NoContext =>
                  /\ player_stats' = player_stats
                  /\ team_stats' = team_stats
                  /\ events' = events]_vars

\* An American League page of 1900 was loaded after a recorded page, and
\* gave no context.
C10_Witness ==
    /\ pc = "pages" /\ Len(visited) = 2
    /\ page.ok /\ page.heading.present
    /\ page.heading.word = "AMERICAN" /\ page.heading.year = 1900
    /\ ctx = NoContext
    /\ player_stats # <<>>

\* --------------------------------------------- claims on the link collector
\* The hrefs the call is to return: a yearly page of league a or n, of the
\* league asked for, and not an American League page before 1901.
Wanted(h) ==
    /\ h.code \in {"a", "n"}
    /\ league = "AL" => h.code = "a"
    /\ league = "NL" => h.code = "n"
    /\ ~(h.code = "a" /\ h.year < 1901)

\* C8: get_year_links returns, in the order of the menu, the hrefs that match
\* the yearly-page pattern, pass the league filter and are not an 'a' link
\* before 1901; so no 'a' link before 1901 is returned, and an 'n' link is
\* returned under NL and BOTH and not under AL.
C8_LinksFiltered ==
    lpc = "returned" =>
        /\ year_links = SelectSeq(anchors, Wanted)
        /\ \A k \in 1..Len(anchors) :
              /\ (anchors[k].code = "a" /\ anchors[k].year < 1901) =>
                     anchors[k] \notin Range(year_links)
              /\ anchors[k].code = "n" =>
                     (anchors[k] \in Range(year_links) <=> league \in {"NL", "BOTH"})

\* A call with BOTH on a menu that holds an 'a' link of 1900 and a link that
\* is returned.
C8_Witness ==
    /\ lpc = "returned" /\ league = "BOTH"
    /\ \E k \in 1..Len(anchors) : anchors[k] = [year |-> 1900, code |-> "a"]
    /\ Len(year_links) = 1

====
